---------------------------- MODULE Spec2Model ----------------------------
(***************************************************************************)
(* Model of app.py, the Streamlit career-guidance script.                  *)
(*                                                                         *)
(* One script run (one execution of main() for one browser event) is one   *)
(* action.  st.session_state is the persistent state; the widget values    *)
(* of a run are the action's inputs.                                       *)
(*                                                                         *)
(* Text is a sequence of one-character strings.  The fixed text of an      *)
(* f-string template is written as one element per literal chunk; only     *)
(* the interpolated parameters are spelled character by character.         *)
(* Non-ASCII glyphs of the source are written in ASCII: the cross mark as  *)
(* "[x]", the arrow as "->", and the emoji that opens a category label as  *)
(* "#".                                                                    *)
(***************************************************************************)
EXTENDS Integers, Sequences, FiniteSets, TLC

VARIABLES
    chat_messages,            \* st.session_state.chat_messages
    career_insights,          \* st.session_state.career_insights
    market_analysis,          \* st.session_state.market_analysis
    college_recommendations,  \* st.session_state.college_recommendations
    resume_feedback,          \* st.session_state.resume_feedback
    selected_career,          \* st.session_state.selected_career
    api_keys_validated,       \* st.session_state.api_keys_validated
    run,                      \* what the last script run received and did
    produced,                 \* per feature, the value its last invocation returned
    generated_for,            \* per tab, the selection its cached result was generated for
    md                        \* a text under as_markdown (SpecNorm only)

session == <<chat_messages, career_insights, market_analysis,
             college_recommendations, resume_feedback, selected_career,
             api_keys_validated>>

vars == <<chat_messages, career_insights, market_analysis,
          college_recommendations, resume_feedback, selected_career,
          api_keys_validated, run, produced, generated_for, md>>

---------------------------------------------------------------------------
(* Bounds of the model *)

\* Chat submissions explored beside the four features (Spec).
MaxTurns == 1

\* Chat submissions explored on their own (SpecChat): enough for a
\* transcript longer than the context window of line 354.
MaxChatTurns == 5

\* Longest as_markdown input explored, in tokens of NormTokens.
MaxTokens == 3

---------------------------------------------------------------------------
(* Characters and Python's str operations *)

NL == "\n"
CR == "\r"
BS == "\\"
SQ == "'"
DQ == "\""
SP == " "

\* c * n
Chars(n, c) == [i \in 1..n |-> c]

\* s.startswith(p)
StartsWith(s, p) == Len(s) >= Len(p) /\ SubSeq(s, 1, Len(p)) = p

\* s.endswith(p)
EndsWith(s, p) == Len(s) >= Len(p) /\ SubSeq(s, Len(s) - Len(p) + 1, Len(s)) = p

\* p in s
Contains(s, p) ==
    \E i \in 1..(Len(s) - Len(p) + 1) : SubSeq(s, i, i + Len(p) - 1) = p

\* s.find(p): the 0-based index of the first occurrence, -1 when there is none
Find(s, p) ==
    IF Contains(s, p)
    THEN (CHOOSE i \in 1..(Len(s) - Len(p) + 1) :
             /\ SubSeq(s, i, i + Len(p) - 1) = p
             /\ \A j \in 1..(i - 1) : SubSeq(s, j, j + Len(p) - 1) # p) - 1
    ELSE -1

\* s[start:], start a 0-based index >= 0
SliceFrom(s, start) == SubSeq(s, start + 1, Len(s))

\* s.replace(old, new): left to right, non-overlapping; old is not empty
RECURSIVE Replace(_, _, _)
Replace(s, old, new) ==
    IF Len(s) < Len(old) THEN s
    ELSE IF StartsWith(s, old)
         THEN new \o Replace(SliceFrom(s, Len(old)), old, new)
         ELSE <<Head(s)>> \o Replace(Tail(s), old, new)

\* str.isspace of one character
IsSpace(c) == c \in {SP, NL, CR, "\t", "\f"}

RECURSIVE LStrip(_)
LStrip(s) == IF s # <<>> /\ IsSpace(Head(s)) THEN LStrip(Tail(s)) ELSE s

RECURSIVE RStrip(_)
RStrip(s) ==
    IF s # <<>> /\ IsSpace(s[Len(s)]) THEN RStrip(SubSeq(s, 1, Len(s) - 1)) ELSE s

\* s.strip()
Strip(s) == RStrip(LStrip(s))

---------------------------------------------------------------------------
(* Values: None, a str, or the message object llm.invoke returns *)

None == [type |-> "None", text |-> <<>>]
Str(t) == [type |-> "str", text |-> t]
AIMessage(t) == [type |-> "AIMessage", text |-> t]

\* Python truthiness of a cached value: None and "" are falsy
Truthy(v) == v.type = "AIMessage" \/ (v.type = "str" /\ v.text # <<>>)

---------------------------------------------------------------------------
(* as_markdown *)

ContentSQ == <<"c", "o", "n", "t", "e", "n", "t", "=", SQ>>
ContentDQ == <<"c", "o", "n", "t", "e", "n", "t", "=", DQ>>

\* lines 17-21: drop a leading content=' / content=" and one closing quote
StripWrapper(val) ==
    IF StartsWith(val, ContentSQ) \/ StartsWith(val, ContentDQ)
    THEN LET start == IF Contains(val, <<SQ>>)
                      THEN Find(val, <<SQ>>) + 1
                      ELSE Find(val, <<DQ>>) + 1
             cut == SliceFrom(val, start)
         IN  IF EndsWith(cut, <<SQ>>) \/ EndsWith(cut, <<DQ>>)
             THEN SubSeq(cut, 1, Len(cut) - 1)
             ELSE cut
    ELSE val

\* line 22: literal backslash-n becomes a line break, carriage returns go
Unescape(val) == Replace(Replace(val, <<BS, "n">>, <<NL>>), <<CR>>, <<>>)

\* lines 23-24: while three line breaks in a row remain, replace them by two
RECURSIVE CollapseBlankLines(_)
CollapseBlankLines(val) ==
    IF Contains(val, <<NL, NL, NL>>)
    THEN CollapseBlankLines(Replace(val, <<NL, NL, NL>>, <<NL, NL>>))
    ELSE val

\* lines 13-25; the result is a str
as_markdown(output) ==
    LET val == output.text  \* .content of a message, str(output) of a str
    IN  Strip(CollapseBlankLines(Unescape(StripWrapper(val))))

---------------------------------------------------------------------------
(* The texts as_markdown is tried on *)

NormTokens ==
    {ContentSQ, ContentDQ, <<SQ>>, <<DQ>>, <<BS>>, <<"n">>, <<CR>>, <<NL>>,
     <<SP>>, <<"x">>}

RECURSIVE TokenTexts(_)
TokenTexts(k) ==
    IF k = 0 THEN {<<>>}
    ELSE LET shorter == TokenTexts(k - 1)
         IN  shorter \cup {p \o t : p \in shorter, t \in NormTokens}

NormInputs == TokenTexts(MaxTokens)

MdIdle == [pc |-> "idle", input |-> <<>>, once |-> <<>>, twice |-> <<>>]

---------------------------------------------------------------------------
(* The career taxonomy explored: the first role of the first two           *)
(* categories of CAREER_CATEGORIES.                                        *)

Technology ==
    <<"#", " ", "T", "e", "c", "h", "n", "o", "l", "o", "g", "y">>
Healthcare ==
    <<"#", " ", "H", "e", "a", "l", "t", "h", "c", "a", "r", "e">>
AIMLEngineer ==
    <<"A", "I", " ", "&", " ", "M", "a", "c", "h", "i", "n", "e", " ",
      "L", "e", "a", "r", "n", "i", "n", "g", " ", "E", "n", "g", "i",
      "n", "e", "e", "r">>
MedicalDataAnalyst ==
    <<"M", "e", "d", "i", "c", "a", "l", " ", "D", "a", "t", "a", " ",
      "A", "n", "a", "l", "y", "s", "t">>

\* category -> roles; the set of pairs stands for the dict of lists
CAREER_CATEGORIES ==
    {<<Technology, AIMLEngineer>>, <<Healthcare, MedicalDataAnalyst>>}

---------------------------------------------------------------------------
(* Prompt builders: the f-strings of the four generate_* functions.  The  *)
(* literal text between two parameters is one element, cut after its      *)
(* first words.                                                            *)

\* mutant: the category is left out of the prompt
CareerPromptWithoutCategory(category, subcareer) ==
    <<"\nGenerate a comprehensive career analysis for:\n\n**Career**: ">>
    \o subcareer
    \o <<"\n\nProvide structured markdown that includes: ...\n">>

career_prompt(category, subcareer) ==
    <<"\nGenerate a comprehensive career analysis for:\n\n**Category**: ">>
    \o category \o <<"\n**Career**: ">> \o subcareer
    \o <<"\n\nProvide structured markdown that includes: ...\n">>

market_prompt(subcareer) ==
    <<"\nSearch the web (live) and analyze the current job market in India for the role: \"">>
    \o subcareer \o <<"\".\n\nPlease include: ...\n">>

college_prompt(subcareer) ==
    <<"\nAs a college advisor, provide detailed recommendations for pursuing a career in \"">>
    \o subcareer \o <<"\" in India.\n\nPlease include: ...\n">>

resume_prompt(resume_text, target_role) ==
    <<"\nAs an expert resume coach, analyze the following resume for the target role: \"">>
    \o target_role \o <<"\"\n\n**Resume Content**:\n">> \o resume_text
    \o <<"\n\nProvide comprehensive feedback in the following structure: ...\n">>

---------------------------------------------------------------------------
(* Model calls.  What llm.invoke / agent_executor.run does on a call is    *)
(* the outcome: it returns a text, or raises an exception with a message.  *)

Returns(t) == [raised |-> FALSE, text |-> t]
Raises(t) == [raised |-> TRUE, text |-> t]

\* mutant: a failed call is tried a second time
TryInvokeRetrying(llm, prompt, outcome, unable) ==
    IF ~llm
    THEN [calls |-> 0, prompt |-> <<>>, raised |-> TRUE,
          returned |-> Str(unable \o <<"LLM not initialized">>)]
    ELSE IF outcome.raised
    THEN [calls |-> 2, prompt |-> prompt, raised |-> TRUE,
          returned |-> Str(unable \o outcome.text)]
    ELSE [calls |-> 1, prompt |-> prompt, raised |-> FALSE,
          returned |-> AIMessage(outcome.text)]

\* The try/except every generate_* function wraps its call in: one
\* llm.invoke(prompt); an exception becomes the returned message.
TryInvoke(llm, prompt, outcome, unable) ==
    IF ~llm
    THEN [calls |-> 0, prompt |-> <<>>, raised |-> TRUE,
          returned |-> Str(unable \o <<"LLM not initialized">>)]
    ELSE IF outcome.raised
    THEN [calls |-> 1, prompt |-> prompt, raised |-> TRUE,
          returned |-> Str(unable \o outcome.text)]
    ELSE [calls |-> 1, prompt |-> prompt, raised |-> FALSE,
          returned |-> AIMessage(outcome.text)]

generate_career_insights(category, subcareer, llm, outcome) ==
    TryInvoke(llm, career_prompt(category, subcareer), outcome,
              <<"[x] Unable to generate career insights. Error: ">>)

generate_market_analysis(subcareer, llm, outcome) ==
    TryInvoke(llm, market_prompt(subcareer), outcome,
              <<"[x] Unable to fetch market analysis. Error: ">>)

generate_college_recommendations(subcareer, llm, outcome) ==
    TryInvoke(llm, college_prompt(subcareer), outcome,
              <<"[x] Unable to generate college recommendations. Error: ">>)

generate_resume_feedback(resume_text, target_role, llm, outcome) ==
    TryInvoke(llm, resume_prompt(resume_text, target_role), outcome,
              <<"[x] Unable to analyze resume. Error: ">>)

NoCall == [calls |-> 0, prompt |-> <<>>, raised |-> FALSE, returned |-> None]

---------------------------------------------------------------------------
(* Resume tab: file text extraction (lines 515-575) *)

\* line 584: the minimum length of a resume
MinResumeLen == 100

\* line 564: the longest preview shown in full
PreviewLimit == 1000

UpperCase == <<"A", "B", "C", "D", "E", "F", "G", "H", "I", "J", "K", "L", "M",
               "N", "O", "P", "Q", "R", "S", "T", "U", "V", "W", "X", "Y", "Z">>
LowerCase == <<"a", "b", "c", "d", "e", "f", "g", "h", "i", "j", "k", "l", "m",
               "n", "o", "p", "q", "r", "s", "t", "u", "v", "w", "x", "y", "z">>

\* s.lower()
Lower(s) ==
    [i \in 1..Len(s) |->
        IF \E k \in 1..26 : UpperCase[k] = s[i]
        THEN LowerCase[CHOOSE k \in 1..26 : UpperCase[k] = s[i]]
        ELSE s[i]]

\* name.split('.')[-1]
RECURSIVE AfterLastDot(_)
AfterLastDot(name) ==
    IF Contains(name, <<".">>)
    THEN AfterLastDot(SliceFrom(name, Find(name, <<".">>) + 1))
    ELSE name

\* sep.join(texts)
RECURSIVE Join(_, _)
Join(texts, sep) ==
    IF texts = <<>> THEN <<>>
    ELSE IF Len(texts) = 1 THEN texts[1]
    ELSE texts[1] \o sep \o Join(Tail(texts), sep)

(* An uploaded file: its name; whether its bytes can be opened (utf-8      *)
(* decoding, PdfReader, docx.Document); and its parts (the text of a txt   *)
(* file, the pages of a PDF, the paragraphs of a Word file), each a text   *)
(* or, for a PDF page, a failure of extract_text().  No name: no upload.   *)
NoFile == [name |-> <<>>, readable |-> TRUE, parts |-> <<>>]
Part(t) == [ok |-> TRUE, text |-> t]
BadPage == [ok |-> FALSE, text |-> <<>>]

\* lines 539-541: resume_text grows page by page until a page raises
RECURSIVE PdfPages(_, _)
PdfPages(pages, resume_text) ==
    IF pages = <<>> THEN [text |-> resume_text, error |-> FALSE]
    ELSE IF Head(pages).ok
         THEN PdfPages(Tail(pages), resume_text \o Head(pages).text \o <<NL>>)
         ELSE [text |-> resume_text, error |-> TRUE]

\* lines 526-559 and 566-567: resume_text and whether st.error was called
ReadUpload(file, have_pypdf2, have_docx) ==
    LET file_extension == Lower(AfterLastDot(file.name))
        failed == [text |-> <<>>, error |-> TRUE]
    IN  IF file_extension = <<"t", "x", "t">>
        THEN IF file.readable
             THEN [text |-> Join([i \in 1..Len(file.parts) |-> file.parts[i].text], <<>>),
                   error |-> FALSE]
             ELSE failed
        ELSE IF file_extension = <<"p", "d", "f">>
        THEN IF ~have_pypdf2 \/ ~file.readable
             THEN failed
             ELSE PdfPages(file.parts, <<>>)
        ELSE IF file_extension \in {<<"d", "o", "c", "x">>, <<"d", "o", "c">>}
        THEN IF ~have_docx \/ ~file.readable
             THEN failed
             ELSE [text |-> Join([i \in 1..Len(file.parts) |-> file.parts[i].text], <<NL>>),
                   error |-> FALSE]
        ELSE [text |-> <<>>, error |-> FALSE]

\* line 564: the text shown in the preview area
PreviewText(resume_text) ==
    IF Len(resume_text) > PreviewLimit
    THEN SubSeq(resume_text, 1, PreviewLimit) \o <<".", ".", ".">>
    ELSE resume_text

\* lines 515-575: resume_text of this run, the error flag and the preview
ResumeInput(in) ==
    IF in.input_method = "upload"
    THEN IF in.uploaded_file.name = <<>>
         THEN [text |-> <<>>, error |-> FALSE, preview |-> <<>>]
         ELSE LET got == ReadUpload(in.uploaded_file, in.have_pypdf2, in.have_docx)
              IN  [text |-> got.text, error |-> got.error,
                   preview |-> IF got.text # <<>> THEN PreviewText(got.text) ELSE <<>>]
    ELSE [text |-> in.pasted, error |-> FALSE, preview |-> <<>>]

\* mutant: the length is taken without strip()
ResumeRejectedUnstripped(resume_text) ==
    resume_text = <<>> \/ Len(resume_text) < MinResumeLen

\* line 584: the test that turns Analyze Resume into a warning
ResumeRejected(resume_text) ==
    resume_text = <<>> \/ Len(Strip(resume_text)) < MinResumeLen

\* mutant: the selected role is never used
TargetRoleInputOnly(target_role_input, selected_subcareer) == target_role_input

\* line 587
TargetRole(target_role_input, selected_subcareer) ==
    IF target_role_input # <<>> THEN target_role_input ELSE selected_subcareer

---------------------------------------------------------------------------
(* Chat (lines 340-384) *)

\* line 354: the number of transcript entries shown to the agent
ContextWindow == 8

\* mutant: the list is assigned anew instead of appended to
AppendMessageReplacing(messages, role, content) ==
    <<[role |-> role, content |-> content]>>

\* st.session_state.chat_messages.append({"role": ..., "content": ...})
AppendMessage(messages, role, content) ==
    Append(messages, [role |-> role, content |-> content])

\* mutant: messages[:n], the first entries instead of the last
FirstN(messages, n) ==
    IF Len(messages) <= n THEN messages ELSE SubSeq(messages, 1, n)

\* messages[-n:]
LastN(messages, n) ==
    IF Len(messages) <= n THEN messages
    ELSE SubSeq(messages, Len(messages) - n + 1, Len(messages))

\* lines 353-355
context_preview(messages) ==
    LET window == LastN(messages, ContextWindow)
    IN  Join([i \in 1..Len(window) |->
                 <<window[i].role>> \o <<":", " ">> \o window[i].content],
             <<NL>>)

\* lines 356-369
chat_prompt(context, prompt) ==
    <<"You are a helpful AI career advisor with expertise in: ...\n\nConversation context:\n">>
    \o context \o <<"\n\nUser question: ">> \o prompt
    \o <<"\n\nProvide a helpful, concise answer. ...\n">>

\* mutant: the except branch reports the error without appending it
CreateChatInterfaceSilentError(messages, prompt, outcome) ==
    IF prompt = <<>>
    THEN [messages |-> messages, call |-> NoCall]
    ELSE LET asked == AppendMessage(messages, "user", prompt)
             sent == chat_prompt(context_preview(asked), prompt)
         IN  IF outcome.raised
             THEN [messages |-> asked,
                   call |-> [calls |-> 1, prompt |-> sent, raised |-> TRUE,
                             returned |-> None]]
             ELSE [messages |->
                       AppendMessage(asked, "assistant", as_markdown(Str(outcome.text))),
                   call |-> [calls |-> 1, prompt |-> sent, raised |-> FALSE,
                             returned |-> Str(outcome.text)]]

\* lines 348-384: a submitted question, one agent_executor.run (with or
\* without the callback handler, lines 373-378), the answer or the error
\* appended
create_chat_interface(messages, prompt, outcome) ==
    IF prompt = <<>>
    THEN [messages |-> messages, call |-> NoCall]
    ELSE LET asked == AppendMessage(messages, "user", prompt)
             sent == chat_prompt(context_preview(asked), prompt)
             err == <<"[x] Error while answering: ">> \o outcome.text
         IN  IF outcome.raised
             THEN [messages |-> AppendMessage(asked, "assistant", err),
                   call |-> [calls |-> 1, prompt |-> sent, raised |-> TRUE,
                             returned |-> None]]
             ELSE [messages |->
                       AppendMessage(asked, "assistant", as_markdown(Str(outcome.text))),
                   call |-> [calls |-> 1, prompt |-> sent, raised |-> FALSE,
                             returned |-> Str(outcome.text)]]

---------------------------------------------------------------------------
(* Session state (lines 99-113).  chat_history and active_tab are set here *)
(* and never read or written again; they are left out.                     *)

SessionKeys ==
    {"chat_messages", "career_insights", "market_analysis",
     "college_recommendations", "resume_feedback", "selected_career",
     "api_keys_validated"}

CacheKeys ==
    {"career_insights", "market_analysis", "college_recommendations",
     "resume_feedback"}

defaults ==
    [chat_messages |-> <<>>, career_insights |-> None, market_analysis |-> None,
     college_recommendations |-> None, resume_feedback |-> None,
     selected_career |-> None, api_keys_validated |-> FALSE]

\* lines 111-113: a default for every key that is missing
initialize_session_state(state) ==
    [k \in SessionKeys |-> IF k \in DOMAIN state THEN state[k] ELSE defaults[k]]

\* mutant: the transcript survives the clear
ClearSessionKeepingChat(state) == [k \in {"chat_messages"} |-> state[k]]

\* lines 430-431: every key is deleted
ClearSession(state) == [k \in {} |-> None]

\* st.session_state.<key> = value
Store(state, key, value) == [state EXCEPT ![key] = value]

\* mutant: one key is enough
KeysConfiguredEither(google_key, serpapi_key) ==
    google_key # <<>> \/ serpapi_key # <<>>

\* lines 407-412
KeysConfigured(google_key, serpapi_key) == google_key # <<>> /\ serpapi_key # <<>>

\* lines 117-144: the llm and the tools, or (None, None)
initialize_llm_and_tools(google_key, serpapi_key, constructed) ==
    IF google_key = <<>> THEN FALSE
    ELSE IF serpapi_key = <<>> THEN FALSE
    ELSE constructed

\* line 472: f"{selected_category} -> {selected_subcareer}"
CareerLabel(category, subcareer) == Str(category \o <<" ", "->", " ">> \o subcareer)

\* The three tabs that show a cached result under a banner, in page order.
TabKeys == {"career_insights", "market_analysis", "college_recommendations"}

TabOrder ==
    [career_insights |-> 1, market_analysis |-> 2, college_recommendations |-> 3]

NoBanner == [shown |-> FALSE, career |-> None]

\* lines 476-477, 487-488, 499-500: the elif branch of a tab whose button
\* is not pressed: the banner names st.session_state.selected_career as it
\* is when the tab is drawn
Banner(state, key) ==
    IF Truthy(state[key])
    THEN [shown |-> TRUE, career |-> state.selected_career]
    ELSE NoBanner

\* The banners of one run.  The tabs are drawn in page order: a tab above
\* the pressed button is drawn from the state before the press, a tab below
\* it from the state after.
Banners(before, tab) ==
    [k \in TabKeys |->
        IF tab.feature \notin TabKeys THEN Banner(before, k)
        ELSE IF k = tab.feature THEN NoBanner
        ELSE IF TabOrder[k] < TabOrder[tab.feature] THEN Banner(before, k)
        ELSE Banner(tab.state, k)]

---------------------------------------------------------------------------
(* One script run: main() (lines 386-606) *)

\* What a run that stops before the tabs has received and done.
Quiet(ev, in) ==
    [event |-> ev, google_key |-> in.google_key, serpapi_key |-> in.serpapi_key,
     stage |-> "no_keys", category |-> <<>>, subcareer |-> <<>>,
     resume_text |-> <<>>, extract_error |-> FALSE, preview |-> <<>>,
     target_role_input |-> <<>>, target_role |-> <<>>, warned |-> FALSE,
     question |-> <<>>, feature |-> "none", calls |-> 0, prompt |-> <<>>,
     raised |-> FALSE, returned |-> None, dropped |-> 0,
     banners |-> [k \in TabKeys |-> NoBanner]]

\* mutant: the cleaned text is cached instead of the returned value
PressedStoringMarkdown(state, feature, call) ==
    [state |-> Store(state, feature, Str(as_markdown(call.returned))),
     feature |-> feature, call |-> call]

\* A pressed button's generate_* call and the assignment of its result
Pressed(state, feature, call) ==
    [state |-> Store(state, feature, call.returned), feature |-> feature,
     call |-> call]

\* lines 471-474, 482-485, 494-497: selected_career is set before the call
Picked(state, in) ==
    Store(state, "selected_career", CareerLabel(in.category, in.subcareer))

\* lines 469-501 and 583-590: the button pressed in this run, if any
PressedTab(state, ev, in, resume_text) ==
    CASE ev = "insights" ->
           Pressed(Picked(state, in), "career_insights",
                   generate_career_insights(in.category, in.subcareer, TRUE, in.outcome))
      [] ev = "market" ->
           Pressed(Picked(state, in), "market_analysis",
                   generate_market_analysis(in.subcareer, TRUE, in.outcome))
      [] ev = "college" ->
           Pressed(Picked(state, in), "college_recommendations",
                   generate_college_recommendations(in.subcareer, TRUE, in.outcome))
      [] ev = "resume" /\ ~ResumeRejected(resume_text) ->
           Pressed(state, "resume_feedback",
                   generate_resume_feedback(
                       resume_text, TargetRole(in.target_role_input, in.subcareer),
                       TRUE, in.outcome))
      [] OTHER -> [state |-> state, feature |-> "none", call |-> NoCall]

\* the end of a run that reached the tabs: the state it leaves and what it did
Finish(before, ev, in, resume, tab, chat) ==
    [state |-> Store(tab.state, "chat_messages", chat.messages),
     obs |-> [event |-> ev, google_key |-> in.google_key,
              serpapi_key |-> in.serpapi_key, stage |-> "done",
              category |-> in.category, subcareer |-> in.subcareer,
              resume_text |-> resume.text, extract_error |-> resume.error,
              preview |-> resume.preview,
              target_role_input |-> in.target_role_input,
              target_role |-> IF tab.feature = "resume_feedback"
                              THEN TargetRole(in.target_role_input, in.subcareer)
                              ELSE <<>>,
              warned |-> (ev = "resume" /\ tab.feature = "none"),
              question |-> IF ev = "chat" THEN in.chat_input ELSE <<>>,
              feature |-> tab.feature,
              calls |-> IF ev = "chat" THEN chat.call.calls ELSE tab.call.calls,
              prompt |-> IF ev = "chat" THEN chat.call.prompt ELSE tab.call.prompt,
              raised |-> IF ev = "chat" THEN chat.call.raised ELSE tab.call.raised,
              returned |-> IF ev = "chat" THEN chat.call.returned ELSE tab.call.returned,
              dropped |-> 0,
              banners |-> Banners(before, tab)]]

\* line 596: the chat follows the tabs
ThenChat(before, ev, in, resume, tab) ==
    Finish(before, ev, in, resume, tab,
           create_chat_interface(tab.state.chat_messages,
                                 IF ev = "chat" THEN in.chat_input ELSE <<>>,
                                 in.outcome))

\* lines 503-593: the resume tab reads its input in every run
ThenTabs(state, ev, in, resume) ==
    ThenChat(state, ev, in, resume, PressedTab(state, ev, in, resume.text))

\* lines 459-596: the selection, the four tabs and the chat
Tabs(state, ev, in) == ThenTabs(state, ev, in, ResumeInput(in))

\* lines 434-457: main returns early without keys, llm or agent
Guarded(state, ev, in) ==
    IF ~state.api_keys_validated
    THEN [state |-> state, obs |-> Quiet(ev, in)]
    ELSE IF ~initialize_llm_and_tools(in.google_key, in.serpapi_key, in.llm_ok)
    THEN [state |-> state, obs |-> [Quiet(ev, in) EXCEPT !.stage = "init_failed"]]
    ELSE IF ~in.agent_ok
    THEN [state |-> state, obs |-> [Quiet(ev, in) EXCEPT !.stage = "agent_failed"]]
    ELSE Tabs(state, ev, in)

\* lines 387-412: the defaults, then the sidebar sets api_keys_validated
Sidebar(state, in) ==
    Store(initialize_session_state(state), "api_keys_validated",
          KeysConfigured(in.google_key, in.serpapi_key))

\* the rerun a Clear Session press ends in, marked as that press's
Cleared(again, dropped) ==
    [state |-> again.state,
     obs |-> [again.obs EXCEPT !.event = "clear", !.dropped = dropped]]

\* main(); a Clear Session press (lines 429-432) deletes every key and
\* reruns the script, in which no button is pressed
main(state, ev, in) ==
    IF ev = "clear"
    THEN Cleared(Guarded(Sidebar(ClearSession(Sidebar(state, in)), in), "rerun", in),
                 Cardinality({k \in SessionKeys : Sidebar(state, in)[k] # defaults[k]}))
    ELSE Guarded(Sidebar(state, in), ev, in)

---------------------------------------------------------------------------
(* The inputs of a run: the widget values and what the services do *)

ApiKeys == {<<>>, <<"k">>}

Outcomes == {Returns(<<"o", "k", NL>>), Raises(<<"t", "i", "m", "e", "o", "u", "t">>)}

Questions == {<<"h", "i">>}

\* Both keys set, the services up, every widget at its default.
Idle ==
    [google_key |-> <<"k">>, serpapi_key |-> <<"k">>, llm_ok |-> TRUE,
     agent_ok |-> TRUE, category |-> Technology, subcareer |-> AIMLEngineer,
     input_method |-> "upload", uploaded_file |-> NoFile, have_pypdf2 |-> TRUE,
     have_docx |-> TRUE, pasted |-> <<>>, target_role_input |-> <<>>,
     chat_input |-> <<>>, outcome |-> Returns(<<>>)]

Unconfigured ==
    {[Idle EXCEPT !.google_key = g, !.serpapi_key = s] :
        <<g, s>> \in (ApiKeys \X ApiKeys) \ {<<(<<"k">>), (<<"k">>)>>}}

Unavailable == {[Idle EXCEPT !.llm_ok = FALSE], [Idle EXCEPT !.agent_ok = FALSE]}

Selected ==
    {[Idle EXCEPT !.category = p[1], !.subcareer = p[2]] : p \in CAREER_CATEGORIES}

WithOutcome(D) == {[d EXCEPT !.outcome = o] : d \in D, o \in Outcomes}

Resume(n) == Chars(n, "r")

SeniorAnalyst ==
    <<"S", "e", "n", "i", "o", "r", " ", "A", "n", "a", "l", "y", "s", "t">>

Pasting(D, texts, roles) ==
    {[d EXCEPT !.input_method = "paste", !.pasted = t, !.target_role_input = r] :
        d \in D, t \in texts, r \in roles}

RerunInputs == Unconfigured \cup Unavailable \cup Selected
FeatureInputs == Unconfigured \cup WithOutcome(Selected)
AnalyzeInputs ==
    Unconfigured
    \cup WithOutcome(Pasting({Idle},
                             {Resume(MinResumeLen - 1), Resume(MinResumeLen),
                              <<NL>> \o Resume(MinResumeLen) \o <<SP>>},
                             {<<>>, SeniorAnalyst}))
ChatInputs ==
    Unconfigured \cup Unavailable
    \cup WithOutcome({[Idle EXCEPT !.chat_input = q] : q \in Questions})
ClearInputs == Unconfigured \cup {Idle}

---------------------------------------------------------------------------
(* The session: Spec *)

NothingProduced == [k \in CacheKeys |-> None]

NothingGenerated == [k \in TabKeys |-> None]

Init ==
    /\ chat_messages = defaults.chat_messages
    /\ career_insights = defaults.career_insights
    /\ market_analysis = defaults.market_analysis
    /\ college_recommendations = defaults.college_recommendations
    /\ resume_feedback = defaults.resume_feedback
    /\ selected_career = defaults.selected_career
    /\ api_keys_validated = defaults.api_keys_validated
    /\ run = [Quiet("start", Idle) EXCEPT !.google_key = <<>>, !.serpapi_key = <<>>]
    /\ produced = NothingProduced
    /\ generated_for = NothingGenerated
    /\ md = MdIdle

\* st.session_state as the run finds it
Now ==
    [chat_messages |-> chat_messages,
     career_insights |-> career_insights,
     market_analysis |-> market_analysis,
     college_recommendations |-> college_recommendations,
     resume_feedback |-> resume_feedback,
     selected_career |-> selected_career,
     api_keys_validated |-> api_keys_validated]

\* The run's result becomes the state.
Commit(ev, done) ==
    /\ chat_messages' = done.state.chat_messages
    /\ career_insights' = done.state.career_insights
    /\ market_analysis' = done.state.market_analysis
    /\ college_recommendations' = done.state.college_recommendations
    /\ resume_feedback' = done.state.resume_feedback
    /\ selected_career' = done.state.selected_career
    /\ api_keys_validated' = done.state.api_keys_validated
    /\ run' = done.obs
    /\ produced' = IF ev = "clear" THEN NothingProduced
                   ELSE IF done.obs.feature # "none"
                   THEN [produced EXCEPT ![done.obs.feature] = done.obs.returned]
                   ELSE produced
    /\ generated_for' =
           IF ev = "clear" THEN NothingGenerated
           ELSE IF done.obs.feature \in TabKeys
           THEN [generated_for EXCEPT ![done.obs.feature] =
                    CareerLabel(done.obs.category, done.obs.subcareer)]
           ELSE generated_for

\* One script run for event ev with the widget values in.
Step(ev, in) == Commit(ev, main(Now, ev, in))

\* The tabs and the chat input are on the page: the last run drew them.
TabsShown == run.stage = "done"

\* a widget other than a button changed, or the page was loaded
Rerun ==
    /\ \E in \in RerunInputs : Step("rerun", in)
    /\ UNCHANGED md

PressCareerInsights ==
    /\ TabsShown
    /\ \E in \in FeatureInputs : Step("insights", in)
    /\ UNCHANGED md

PressMarketData ==
    /\ TabsShown
    /\ \E in \in FeatureInputs : Step("market", in)
    /\ UNCHANGED md

PressCollegeRecommendations ==
    /\ TabsShown
    /\ \E in \in FeatureInputs : Step("college", in)
    /\ UNCHANGED md

PressAnalyzeResume ==
    /\ TabsShown
    /\ \E in \in AnalyzeInputs : Step("resume", in)
    /\ UNCHANGED md

SubmitChat ==
    /\ TabsShown
    /\ Len(chat_messages) < 2 * MaxTurns
    /\ \E in \in ChatInputs : Step("chat", in)
    /\ UNCHANGED md

\* the button is in the sidebar, which every run draws
PressClearSession ==
    /\ \E in \in ClearInputs : Step("clear", in)
    /\ UNCHANGED md

Next ==
    \/ Rerun
    \/ PressCareerInsights
    \/ PressMarketData
    \/ PressCollegeRecommendations
    \/ PressAnalyzeResume
    \/ SubmitChat
    \/ PressClearSession

Spec == Init /\ [][Next]_vars

---------------------------------------------------------------------------
(* The chat on its own: SpecChat *)

\* Two questions, so that the entries of a long transcript differ.
FollowUps == {<<"h", "i">>, <<"w", "h", "y", "?">>}

LongChatInputs ==
    Unconfigured \cup Unavailable
    \cup WithOutcome({[Idle EXCEPT !.chat_input = q] : q \in FollowUps})

SubmitLongChat ==
    /\ TabsShown
    /\ Len(chat_messages) < 2 * MaxChatTurns
    /\ \E in \in LongChatInputs : Step("chat", in)
    /\ UNCHANGED md

NextChat ==
    \/ Rerun
    \/ SubmitLongChat
    \/ PressClearSession

SpecChat == Init /\ [][NextChat]_vars

---------------------------------------------------------------------------
(* The resume tab on its own, with more resumes: SpecResume *)

CvTxt == <<"c", "v", ".", "t", "x", "t">>
CvPdf == <<"c", "v", ".", "P", "D", "F">>
CvDocx == <<"m", "y", ".", "c", "v", ".", "d", "o", "c", "x">>
CvDoc == <<"c", "v", ".", "d", "o", "c">>

Upload(name, readable, parts) == [name |-> name, readable |-> readable, parts |-> parts]

Uploads ==
    {Upload(CvTxt, TRUE, <<Part(Resume(MinResumeLen))>>),
     Upload(CvTxt, FALSE, <<>>),
     Upload(CvPdf, TRUE, <<Part(Resume(MinResumeLen - 1))>>),
     Upload(CvPdf, TRUE, <<Part(Resume(MinResumeLen)), BadPage>>),
     Upload(CvPdf, TRUE, <<BadPage, Part(Resume(MinResumeLen))>>),
     Upload(CvPdf, FALSE, <<>>),
     Upload(CvDocx, TRUE, <<Part(Resume(60)), Part(Resume(60))>>),
     Upload(CvDoc, FALSE, <<>>)}

Uploading ==
    {[Idle EXCEPT !.uploaded_file = f] : f \in Uploads}
    \cup {[Idle EXCEPT !.uploaded_file = Upload(CvPdf, TRUE, <<Part(Resume(MinResumeLen))>>),
                       !.have_pypdf2 = FALSE],
          [Idle EXCEPT !.uploaded_file = Upload(CvDocx, TRUE, <<Part(Resume(MinResumeLen))>>),
                       !.have_docx = FALSE]}

PastedTexts ==
    {<<>>, Resume(MinResumeLen - 1), Resume(MinResumeLen),
     Resume(MinResumeLen - 1) \o <<SP>>,
     <<NL>> \o Resume(MinResumeLen) \o <<SP>>,
     Chars(MinResumeLen, SP)}

TargetRoles == {<<>>, SeniorAnalyst, <<SP>>}

ResumeTabInputs ==
    {[d EXCEPT !.category = p[1], !.subcareer = p[2], !.target_role_input = r] :
        d \in Uploading \cup Pasting({Idle}, PastedTexts, {<<>>}),
        p \in CAREER_CATEGORIES, r \in TargetRoles}

\* a file was uploaded, or a widget of the tab changed
ResumeRerun ==
    /\ \E in \in ResumeTabInputs : Step("rerun", in)
    /\ UNCHANGED md

ResumeAnalyze ==
    /\ TabsShown
    /\ \E in \in WithOutcome(ResumeTabInputs) : Step("resume", in)
    /\ UNCHANGED md

NextResume ==
    \/ ResumeRerun
    \/ ResumeAnalyze

SpecResume == Init /\ [][NextResume]_vars

---------------------------------------------------------------------------
(* as_markdown on its own: SpecNorm *)

InitNorm ==
    /\ chat_messages = defaults.chat_messages
    /\ career_insights = defaults.career_insights
    /\ market_analysis = defaults.market_analysis
    /\ college_recommendations = defaults.college_recommendations
    /\ resume_feedback = defaults.resume_feedback
    /\ selected_career = defaults.selected_career
    /\ api_keys_validated = defaults.api_keys_validated
    /\ run = [Quiet("start", Idle) EXCEPT !.google_key = <<>>, !.serpapi_key = <<>>]
    /\ produced = NothingProduced
    /\ generated_for = NothingGenerated
    /\ md \in {[MdIdle EXCEPT !.pc = "input", !.input = t] : t \in NormInputs}

\* the model's output is cleaned for display
Normalize ==
    /\ md.pc = "input"
    /\ md' = [md EXCEPT !.pc = "once", !.once = as_markdown(AIMessage(md.input))]
    /\ UNCHANGED <<session, run, produced, generated_for>>

\* the cleaned text is cleaned again
Renormalize ==
    /\ md.pc = "once"
    /\ md' = [md EXCEPT !.pc = "twice", !.twice = as_markdown(Str(md.once))]
    /\ UNCHANGED <<session, run, produced, generated_for>>

NextNorm ==
    \/ Normalize
    \/ Renormalize

SpecNorm == InitNorm /\ [][NextNorm]_vars

---------------------------------------------------------------------------
(* Properties *)

IsPrefix(s, u) == Len(s) <= Len(u) /\ SubSeq(u, 1, Len(s)) = s

Caches ==
    [career_insights |-> career_insights, market_analysis |-> market_analysis,
     college_recommendations |-> college_recommendations,
     resume_feedback |-> resume_feedback]

KeyMissing(r) == r.google_key = <<>> \/ r.serpapi_key = <<>>

\* C1: in a run without a Clear Session press, the transcript before the run
\* is a prefix of the transcript after it, whether the agent answers or raises.
C1_TranscriptAppendOnly ==
    [][run'.event # "clear" => IsPrefix(chat_messages, chat_messages')]_vars

\* A second submission whose agent call raised, appended after an earlier turn.
C1_Witness ==
    /\ run.event = "chat"
    /\ run.raised
    /\ Len(chat_messages) = 4
    /\ chat_messages[2].content = <<"o", "k">>

\* C2: after a Clear Session press and its rerun, the four cached results and
\* selected_career are None and the transcript is empty.
C2_ClearResetsSession ==
    run.event = "clear" =>
        /\ \A k \in CacheKeys : Caches[k] = None
        /\ selected_career = None
        /\ chat_messages = <<>>

\* A clear that deleted a session in which every key had left its default.
C2_Witness == run.event = "clear" /\ run.dropped = Cardinality(SessionKeys)

\* C3 as stated: an Analyze Resume press calls the model and overwrites
\* resume_feedback exactly when resume_text has at least 100 characters;
\* otherwise it warns, calls nothing and leaves resume_feedback alone.
C3_Original ==
    [][(run'.event = "resume" /\ run'.stage = "done") =>
          IF Len(run'.resume_text) >= MinResumeLen
          THEN run'.calls = 1 /\ ~run'.warned /\ resume_feedback' = run'.returned
          ELSE run'.calls = 0 /\ run'.warned /\ resume_feedback' = resume_feedback]_vars

\* C3 amended: the length that counts is that of resume_text with leading and
\* trailing whitespace stripped.
C3_StrippedMinimum ==
    [][(run'.event = "resume" /\ run'.stage = "done") =>
          IF Len(Strip(run'.resume_text)) >= MinResumeLen
          THEN run'.calls = 1 /\ ~run'.warned /\ resume_feedback' = run'.returned
          ELSE run'.calls = 0 /\ run'.warned /\ resume_feedback' = resume_feedback]_vars

\* A resume of 100 characters, 99 once stripped, rejected while an earlier
\* feedback is cached.
C3_Witness ==
    /\ run.event = "resume"
    /\ run.stage = "done"
    /\ Len(run.resume_text) >= MinResumeLen
    /\ Len(Strip(run.resume_text)) < MinResumeLen
    /\ run.warned
    /\ resume_feedback # None

\* C4: as_markdown(as_markdown(t)) = as_markdown(t) for every text t.
C4_Idempotent == md.pc = "twice" => md.twice = md.once

\* C5: the prompt sent for a feature contains every parameter passed to its
\* builder, unmodified and contiguous.
C5_PromptEmbedsParameters ==
    (run.calls = 1 /\ run.feature # "none") =>
        /\ Contains(run.prompt, run.subcareer) \/ run.feature = "resume_feedback"
        /\ run.feature = "career_insights" => Contains(run.prompt, run.category)
        /\ run.feature = "resume_feedback" =>
              /\ Contains(run.prompt, run.resume_text)
              /\ Contains(run.prompt, run.target_role)

\* A resume prompt built from a pasted resume that begins and ends with
\* whitespace, and an entered target role.
C5_Witness ==
    /\ run.feature = "resume_feedback"
    /\ run.calls = 1
    /\ run.target_role = SeniorAnalyst
    /\ run.resume_text = <<NL>> \o Resume(MinResumeLen) \o <<SP>>

\* C6 as stated: api_keys_validated is True exactly when both keys are set, and
\* a run with a key missing stops before the llm, calls nothing and changes
\* no cached result and no transcript entry.
C6_Original ==
    [][/\ api_keys_validated' = ~KeyMissing(run')
       /\ KeyMissing(run') =>
             /\ run'.stage = "no_keys"
             /\ run'.calls = 0
             /\ Caches' = Caches
             /\ chat_messages' = chat_messages]_vars

\* C6 amended: the cached results and the transcript are unchanged unless the
\* run is a Clear Session press, which resets them.
C6_NoKeysNothingInvoked ==
    [][/\ api_keys_validated' = ~KeyMissing(run')
       /\ KeyMissing(run') =>
             /\ run'.stage = "no_keys"
             /\ run'.calls = 0
             /\ IF run'.event = "clear"
                THEN (\A k \in CacheKeys : Caches'[k] = None) /\ chat_messages' = <<>>
                ELSE Caches' = Caches /\ chat_messages' = chat_messages]_vars

\* A button press that arrives with a key missing, over a filled session.
C6_Witness ==
    /\ KeyMissing(run)
    /\ run.event = "insights"
    /\ career_insights # None
    /\ chat_messages # <<>>

\* C7: a run makes at most one model or agent call; a feature press that
\* reaches its generate_* call, or a chat submission, makes exactly one; when
\* the call raises, the error text is the result and the run reaches its end.
C7_OneCallNoRetry ==
    /\ run.calls <= 1
    /\ (run.stage = "done" /\ (run.feature # "none" \/ run.event = "chat")) =>
          run.calls = 1
    /\ (run.stage = "done" /\ run.event \in {"insights", "market", "college"}) =>
          run.feature # "none"
    /\ (run.stage = "done" /\ run.event = "resume") =>
          (run.feature = "none") = run.warned
    /\ (run.raised /\ run.feature # "none") =>
          /\ Caches[run.feature].type = "str"
          /\ StartsWith(Caches[run.feature].text, <<"[x] Unable to generate career insights. Error: ">>)
             \/ StartsWith(Caches[run.feature].text, <<"[x] Unable to fetch market analysis. Error: ">>)
             \/ StartsWith(Caches[run.feature].text, <<"[x] Unable to generate college recommendations. Error: ">>)
             \/ StartsWith(Caches[run.feature].text, <<"[x] Unable to analyze resume. Error: ">>)
    /\ (run.raised /\ run.event = "chat") =>
          /\ chat_messages[Len(chat_messages)].role = "assistant"
          /\ StartsWith(chat_messages[Len(chat_messages)].content,
                        <<"[x] Error while answering: ">>)
    /\ run.raised => run.stage = "done"

\* A market press whose call raised.
C7_Witness ==
    /\ run.event = "market"
    /\ run.raised
    /\ run.calls = 1
    /\ market_analysis.type = "str"

\* C8: each cache entry is the value its feature's last invocation returned
\* (None when there was none since the start or the last clear), and a
\* feature press or a chat submission leaves the other entries unchanged.
C8_CacheHoldsLastResult ==
    [][/\ \A k \in CacheKeys : Caches'[k] = produced'[k]
       /\ run'.event \in {"insights", "market", "college", "resume", "chat"} =>
             \A k \in CacheKeys \ {run'.feature} : Caches'[k] = Caches[k]]_vars

\* A second, failed insights call over an earlier success of the other features.
C8_Witness ==
    /\ run.event = "insights"
    /\ run.raised
    /\ market_analysis.type = "AIMessage"
    /\ college_recommendations.type = "str"
    /\ resume_feedback.type = "AIMessage"

\* C9: when extraction reports an error, resume_text is empty: nothing is
\* previewed and nothing is sent to the model.
C9_ErrorMeansNoText ==
    run.extract_error =>
        run.resume_text = <<>> /\ run.preview = <<>> /\ run.calls = 0

\* C10: the role of the resume prompt is the entered target role when there
\* is one and the selected role otherwise, and it is never empty.
C10_TargetRole ==
    (run.feature = "resume_feedback" /\ run.calls = 1) =>
        LET role == IF run.target_role_input # <<>>
                    THEN run.target_role_input
                    ELSE run.subcareer
        IN  /\ role # <<>>
            /\ run.prompt = resume_prompt(run.resume_text, role)

\* A resume analysed with the target role left empty.
C10_Witness ==
    /\ run.feature = "resume_feedback"
    /\ run.calls = 1
    /\ run.target_role_input = <<>>
    /\ run.subcareer = MedicalDataAnalyst

\* C11: whenever a run shows "Showing cached results for: <selected_career>"
\* on the insights, market or college tab, the career it names is the
\* category -> role pair that tab's cached result was generated for.
C11_BannerNamesGeneratingSelection ==
    \A k \in TabKeys :
        run.banners[k].shown => run.banners[k].career = generated_for[k]

\* The transcript is user, assistant, user, assistant, ... and of even length.
Alternates(messages) ==
    /\ Len(messages) % 2 = 0
    /\ \A i \in 1..Len(messages) :
           messages[i].role = IF i % 2 = 1 THEN "user" ELSE "assistant"

\* The error text of line 382.
IsChatError(content) == StartsWith(content, <<"[x] Error while answering: ">>)

\* C12: a run in which a question is submitted to the chat input appends
\* exactly two entries to the transcript: the user's question, then one
\* assistant entry, which is the normalized answer when the agent returned
\* and the error text when it raised; and at the end of every run the
\* transcript has even length and alternates user, assistant from a user
\* entry on.
C12_ChatAppendsPair ==
    /\ [](Alternates(chat_messages))
    /\ [][(run'.event = "chat" /\ run'.stage = "done") =>
            /\ Len(chat_messages') = Len(chat_messages) + 2
            /\ SubSeq(chat_messages', 1, Len(chat_messages)) = chat_messages
            /\ chat_messages'[Len(chat_messages) + 1] =
                   [role |-> "user", content |-> run'.question]
            /\ chat_messages'[Len(chat_messages) + 2].role = "assistant"
            /\ IF run'.raised
               THEN IsChatError(chat_messages'[Len(chat_messages) + 2].content)
               ELSE chat_messages'[Len(chat_messages) + 2].content =
                        as_markdown(run'.returned)]_vars

\* A transcript of two submissions, the first answered and the second failed.
C12_Witness ==
    /\ run.event = "chat"
    /\ run.raised
    /\ Len(chat_messages) = 4
    /\ ~IsChatError(chat_messages[2].content)
    /\ IsChatError(chat_messages[4].content)

\* f"{m['role']}: {m['content']}", one line of the conversation context
ContextLine(m) == <<m.role>> \o <<":", " ">> \o m.content

\* The transcript as the agent call found it: the run's assistant entry is
\* the last of the transcript the run leaves.
Asked == SubSeq(chat_messages, 1, Len(chat_messages) - 1)

\* The last min(8, n) of the n entries of Asked, oldest first.
ExpectedContext ==
    LET n == Len(Asked)
        k == IF n < 8 THEN n ELSE 8
    IN  [i \in 1..k |-> Asked[n - k + i]]

\* C13: the conversation context in the prompt of a chat submission is the
\* last min(8, n) entries of the transcript, in insertion order, of the n
\* entries it has once the user's question is appended; its last entry is
\* that question, and it has at most 8 entries however long the transcript.
C13_ContextIsLastEight ==
    (run.event = "chat" /\ run.calls = 1) =>
        /\ run.prompt =
               chat_prompt(Join([i \in 1..Len(ExpectedContext) |->
                                    ContextLine(ExpectedContext[i])], <<NL>>),
                           run.question)
        /\ ExpectedContext[Len(ExpectedContext)] =
               [role |-> "user", content |-> run.question]
        /\ Len(ExpectedContext) <= 8

\* A submission to a transcript of eight entries: nine with the question,
\* of which the first is left out of the context.
C13_Witness ==
    /\ run.event = "chat"
    /\ run.calls = 1
    /\ Len(chat_messages) = 10
    /\ Len(ExpectedContext) = 8
    /\ ExpectedContext[1] = chat_messages[2]

====
